---- MODULE Spec2Model ----
(***************************************************************************)
(* Retrieval-and-analysis pipeline of policy-scribe: the process-document  *)
(* edge function (ingest: clean, chunk, store), the analyze-document edge  *)
(* function (select, rank, call the AI gateway, parse or fall back,        *)
(* record the query, respond), the dashboard's document delete, and the    *)
(* documents / queries tables they share.                                  *)
(*                                                                         *)
(* Text is a sequence of UTF-16 code units (naturals).  JavaScript values  *)
(* that cross the JSON boundary are tagged records (see Undefined .. Obj). *)
(***************************************************************************)
EXTENDS Integers, Sequences, FiniteSets, TLC

VARIABLES
    chunkSize,       \* process-document: const chunkSize (configuration)
    documents,       \* table public.documents: id -> row
    queries,         \* table public.queries: rows in insertion order
    nextDocId,       \* ids handed out so far by gen_random_uuid() for documents
    ingestResponse,  \* the last HTTP response of process-document
    nreq,            \* analyze-document requests received so far
    pc,              \* position of the analyze-document handler
    req,             \* the request: Authorization token and JSON body
    user,            \* analyze-document: user
    document,        \* analyze-document: document
    relevantChunks,  \* analyze-document: relevantChunks
    context,         \* analyze-document: context
    ai,              \* the AI gateway call: "idle", "pending", "silent", or how it ended
    aiCalls,         \* fetches of the AI gateway the current analyze request has made
    aiResponse,      \* analyze-document: aiResponse
    result,          \* analyze-document: result
    insertError,     \* the { error } the queries insert returned
    response,        \* the HTTP response of analyze-document
    errlog,          \* console.error lines of the current analyze request
    cText,           \* chunk loop on its own: extractedText
    cI,              \* chunk loop on its own: i
    cChunks          \* chunk loop on its own: chunks

sysVars == <<documents, queries, nextDocId, ingestResponse, nreq, pc, req, user,
             document, relevantChunks, context, ai, aiCalls, aiResponse, result,
             insertError, response, errlog>>
loopVars == <<cText, cI, cChunks>>
vars == <<chunkSize, sysVars, loopVars>>

----------------------------------------------------------------------------
(* Bounds of the model *)

\* documents ingested in one run
MaxDocs == 1
\* analyze requests in one run
MaxRequests == 1
\* chunk sizes 1..MaxChunkSize stand for the configured 1000
MaxChunkSize == 2
\* evidence preview length, standing for the configured 200
PreviewLen == 1
\* longest text the stand-alone chunk loop is run on
MaxTextLen == 5

(* Program constants *)

\* slice(0, 3)
TopK == 3
\* extractedText.length < 10
MinTextLen == 10
\* confidence_score: 75
FallbackConfidence == 75
\* chunk size of the spec's knee-surgery scenario
ScenarioChunkSize == 40

----------------------------------------------------------------------------
(* Strings *)

Min(a, b) == IF a < b THEN a ELSE b
Max(a, b) == IF a > b THEN a ELSE b

\* String.prototype.substring(start, end): clamps both to 0..length, swaps
\* them when start > end; positions are zero-based, end exclusive.
Substring(s, start, end) ==
    LET a == Min(Max(start, 0), Len(s))
        b == Min(Max(end, 0), Len(s))
    IN  SubSeq(s, Min(a, b) + 1, Max(a, b))

\* One code unit of String.prototype.toLowerCase (ASCII and Latin-1 letters).
LowerCode(c) ==
    IF c \in 65..90 \/ (c \in 192..222 /\ c # 215) THEN c + 32 ELSE c

ToLowerCase(s) == [k \in 1..Len(s) |-> LowerCode(s[k])]

RECURSIVE IndexOfFrom(_, _, _)
\* String.prototype.indexOf scanning from position k; -1 when absent.
IndexOfFrom(s, q, k) ==
    IF k + Len(q) > Len(s) THEN -1
    ELSE IF SubSeq(s, k + 1, k + Len(q)) = q THEN k
    ELSE IndexOfFrom(s, q, k + 1)

\* String.prototype.includes
Includes(s, q) == IndexOfFrom(s, q, 0) # -1

\* /\u0000/g and /[\x00-\x08\x0B\x0C\x0E-\x1F\x7F]/g
IsControl(c) == c = 0 \/ c \in 0..8 \/ c \in {11, 12} \/ c \in 14..31 \/ c = 127

StripControl(s) == SelectSeq(s, LAMBDA c : ~IsControl(c))

\* WhiteSpace and LineTerminator code units removed by String.prototype.trim
IsWhiteSpace(c) ==
    \/ c \in {9, 10, 11, 12, 13, 32, 160, 5760, 8232, 8233, 8239, 8287, 12288, 65279}
    \/ c \in 8192..8202

RECURSIVE TrimStart(_)
TrimStart(s) ==
    IF s # <<>> /\ IsWhiteSpace(Head(s)) THEN TrimStart(Tail(s)) ELSE s

RECURSIVE TrimEnd(_)
TrimEnd(s) ==
    IF s # <<>> /\ IsWhiteSpace(s[Len(s)]) THEN TrimEnd(SubSeq(s, 1, Len(s) - 1)) ELSE s

Trim(s) == TrimEnd(TrimStart(s))

\* the cleaning without its trim
CleanText_NoTrim(fileContent) == StripControl(StripControl(fileContent))

\* fileContent.replace(...).replace(...).trim()
CleanText(fileContent) == Trim(StripControl(StripControl(fileContent)))

RECURSIVE Join(_, _)
\* Array.prototype.join
Join(texts, sep) ==
    IF texts = <<>> THEN <<>>
    ELSE IF Len(texts) = 1 THEN texts[1]
    ELSE texts[1] \o sep \o Join(Tail(texts), sep)

----------------------------------------------------------------------------
(* Chunker: process-document, the chunk loop *)

\* the chunk loop with the index taken from the offset i
ChunkPush_IndexFromOffset(chunks, extractedText, i, size) ==
    Append(chunks, [text  |-> Substring(extractedText, i, i + size),
                    index |-> i])

\* chunks.push({ text: extractedText.substring(i, i + chunkSize), index: chunks.length })
ChunkPush(chunks, extractedText, i, size) ==
    Append(chunks, [text  |-> Substring(extractedText, i, i + size),
                    index |-> Len(chunks)])

RECURSIVE ChunkLoop_Overlap(_, _, _, _)
\* the chunk loop with each chunk running one character into the next
ChunkLoop_Overlap(extractedText, size, i, chunks) ==
    IF i < Len(extractedText)
    THEN ChunkLoop_Overlap(extractedText, size, i + size,
                           Append(chunks, [text  |-> Substring(extractedText, i, i + size + 1),
                                           index |-> Len(chunks)]))
    ELSE chunks

RECURSIVE ChunkLoop(_, _, _, _)
\* for (let i = 0; i < extractedText.length; i += chunkSize) { chunks.push(...) }
ChunkLoop(extractedText, size, i, chunks) ==
    IF i < Len(extractedText)
    THEN ChunkLoop(extractedText, size, i + size, ChunkPush(chunks, extractedText, i, size))
    ELSE chunks

ChunkText(extractedText, size) == ChunkLoop(extractedText, size, 0, <<>>)

----------------------------------------------------------------------------
(* Relevance ranker: analyze-document, relevantChunks *)

\* score: chunk.text.toLowerCase().includes(questionLower) ? 1 : 0
Score(chunk, questionLower) ==
    IF Includes(ToLowerCase(chunk.text), questionLower) THEN 1 ELSE 0

\* .map((chunk) => ({ ...chunk, score }))
MapScore(chunks, question) ==
    [k \in 1..Len(chunks) |->
        [text  |-> chunks[k].text,
         index |-> chunks[k].index,
         score |-> Score(chunks[k], ToLowerCase(question))]]

\* the filter keeping the chunks that scored 0 as well
FilterScored_KeepsZero(scored) == SelectSeq(scored, LAMBDA c : c.score >= 0)

\* .filter((chunk) => chunk.score > 0)
FilterScored(scored) == SelectSeq(scored, LAMBDA c : c.score > 0)

\* the comparator (a, b) => b.score - a.score
Compare(a, b) == b.score - a.score

\* x placed behind every element it does not sort strictly before
InsertSorted(sorted, x) ==
    LET before == {k \in 0..Len(sorted) :
                      \A j \in (k + 1)..Len(sorted) : Compare(x, sorted[j]) < 0}
        k == CHOOSE m \in before : \A n \in before : m <= n
    IN  SubSeq(sorted, 1, k) \o <<x>> \o SubSeq(sorted, k + 1, Len(sorted))

RECURSIVE SortChunks(_)
\* Array.prototype.sort: stable, ordered by the comparator
SortChunks(scored) ==
    IF scored = <<>> THEN <<>>
    ELSE InsertSorted(SortChunks(SubSeq(scored, 1, Len(scored) - 1)), scored[Len(scored)])

\* .slice(0, 3)
Slice(seq, n) == SubSeq(seq, 1, Min(n, Len(seq)))

\* the ranker taking its three chunks before it filters
RelevantChunks_SliceFirst(chunks, question) ==
    SortChunks(FilterScored(Slice(MapScore(chunks, question), TopK)))

\* const relevantChunks = chunks.map(...).filter(...).sort(...).slice(0, 3)
RelevantChunks(chunks, question) ==
    Slice(SortChunks(FilterScored(MapScore(chunks, question))), TopK)

\* relevantChunks.map((c) => c.text).join("\n\n")
Context(ranked) == Join([k \in 1..Len(ranked) |-> ranked[k].text], <<10, 10>>)

----------------------------------------------------------------------------
(* JavaScript values: a type tag, and the payload of that type *)

Undefined == [t |-> "undefined", n |-> 0, s |-> <<>>, a |-> <<>>]
Null      == [t |-> "null",      n |-> 0, s |-> <<>>, a |-> <<>>]
Num(k)    == [t |-> "number",    n |-> k, s |-> <<>>, a |-> <<>>]
Str(x)    == [t |-> "string",    n |-> 0, s |-> x,    a |-> <<>>]
Arr(xs)   == [t |-> "array",     n |-> 0, s |-> <<>>, a |-> xs]

\* an object literal with the four fields of the result
Obj(answer, evidence, confidence_score, reasoning) ==
    [t |-> "object", answer |-> answer, evidence |-> evidence,
     confidence_score |-> confidence_score, reasoning |-> reasoning]

\* v.field for a value that is neither null nor undefined: a field of an
\* object, undefined for a number, a string or an array
Get(v, field) ==
    IF v.t = "object"
    THEN CASE field = "answer" -> v.answer
           [] field = "evidence" -> v.evidence
           [] field = "confidence_score" -> v.confidence_score
           [] field = "reasoning" -> v.reasoning
    ELSE Undefined

\* interface QueryResult { answer: string; evidence: string[];
\*                         confidence_score: number; reasoning: string }
\* with the score in 0..100 the system prompt asks for
IsQueryResult(v) ==
    /\ v.t = "object"
    /\ v.answer.t = "string"
    /\ v.evidence.t = "array"
    /\ v.confidence_score.t = "number"
    /\ v.confidence_score.n \in 0..100
    /\ v.reasoning.t = "string"

----------------------------------------------------------------------------
(* Inputs *)

Users == {"u1", "u2"}
\* bearer tokens: a user's own, or one auth.getUser rejects
Tokens == Users \cup {"bad"}

\* "Section 1: Knee surgery is covered under plan B. Section 2: Dental is excluded."
ScenarioText ==
    <<83, 101, 99, 116, 105, 111, 110, 32, 49, 58, 32, 75, 110, 101, 101, 32,
      115, 117, 114, 103, 101, 114, 121, 32, 105, 115, 32, 99, 111, 118, 101,
      114, 101, 100, 32, 117, 110, 100, 101, 114, 32, 112, 108, 97, 110, 32,
      66, 46, 32, 83, 101, 99, 116, 105, 111, 110, 32, 50, 58, 32, 68, 101,
      110, 116, 97, 108, 32, 105, 115, 32, 101, 120, 99, 108, 117, 100, 101,
      100, 46>>

\* "Is knee surgery covered?"
ScenarioQuestion ==
    <<73, 115, 32, 107, 110, 101, 101, 32, 115, 117, 114, 103, 101, 114, 121,
      32, 99, 111, 118, 101, 114, 101, 100, 63>>

\* " Ab\0xx\x07abaBab\n": cleans to "AbxxabaBab" (10 characters)
NoisyFile == <<32, 65, 98, 0, 120, 120, 7, 97, 98, 97, 66, 97, 98, 10>>

\* " too\0 short ": cleans to "too short" (9 characters)
TooShortFile == <<32, 116, 111, 111, 0, 32, 115, 104, 111, 114, 116, 32>>

\* " \0\x1f\n": nothing is left of it
BlankFile == <<32, 0, 31, 10>>

\* the decoded contents of the files uploaded
Files == {ScenarioText, NoisyFile, TooShortFile, BlankFile}

\* "AB" and the scenario's question
Questions == {<<65, 66>>, ScenarioQuestion}

\* "Yes", "because"
AnswerText == <<89, 101, 115>>
ReasonText == <<98, 101, 99, 97, 117, 115, 101>>

\* What the AI gateway does with one call: how the call ends and, when it
\* ends with a message, the message content.  A content is given by what
\* JSON.parse makes of it: parses = FALSE with its raw text, or
\* parses = TRUE with the value parsed.
Content(parses, raw, value) == [parses |-> parses, raw |-> raw, value |-> value]
NoContent == Content(FALSE, <<>>, Undefined)

AIOutcomes ==
    { \* fetch rejects
      [kind |-> "network_error", content |-> NoContent],
      \* response.ok is false
      [kind |-> "bad_status", content |-> NoContent],
      \* response.json() throws, or there is no choices[0].message
      [kind |-> "bad_envelope", content |-> NoContent],
      \* plain prose
      [kind |-> "content", content |-> Content(FALSE, AnswerText, Undefined)],
      \* the object the system prompt asks for
      [kind |-> "content", content |->
          Content(TRUE, <<>>, Obj(Str(AnswerText), Arr(<<ReasonText>>), Num(85), Str(ReasonText)))],
      \* an object with a score out of range
      [kind |-> "content", content |->
          Content(TRUE, <<>>, Obj(Str(AnswerText), Arr(<<>>), Num(150), Str(ReasonText)))],
      \* the JSON text 42
      [kind |-> "content", content |-> Content(TRUE, <<>>, Num(42))],
      \* the JSON text null
      [kind |-> "content", content |-> Content(TRUE, <<>>, Null)] }

----------------------------------------------------------------------------
(* Storage and HTTP *)

NoResponse == [status |-> 0, body |-> Undefined, error |-> ""]
\* new Response(JSON.stringify(body), { headers })
Ok(body) == [status |-> 200, body |-> body, error |-> ""]
\* new Response(JSON.stringify({ error: error.message }), { status: 500 })
Failed(message) == [status |-> 500, body |-> Undefined, error |-> message]

NoRequest == [token |-> "bad", documentId |-> 0, question |-> <<>>]
NoDocument == [id |-> 0, user_id |-> "", content |-> <<>>, chunks |-> <<>>]

\* supabase.auth.getUser(token): the token's user, or an error
GetUser(token) == IF token \in Users THEN token ELSE ""

\* CREATE TABLE public.queries: document_id REFERENCES documents(id),
\* question NOT NULL, confidence_score INTEGER; the other columns take
\* whatever JSON gives them, a missing one is NULL.
QueryRowAccepted(row, docs) ==
    /\ row.document_id \in DOMAIN docs
    /\ row.confidence_score.t \in {"number", "undefined", "null"}

\* a foreign key without the cascade
CascadeDelete_KeepsRows(rows, id) == rows

\* ON DELETE CASCADE of queries.document_id
CascadeDelete(rows, id) == SelectSeq(rows, LAMBDA r : r.document_id # id)

----------------------------------------------------------------------------
(* process-document *)

\* The handler: authenticate, read and clean the file, refuse text shorter
\* than 10 characters, chunk it, insert the document row, respond.
ProcessDocument(token, fileContent, storageUp) ==
    /\ nextDocId < MaxDocs
    /\ LET extractedText == CleanText(fileContent)
           chunks == ChunkText(extractedText, chunkSize)
           id == nextDocId + 1
       IN  IF GetUser(token) = ""
           THEN /\ ingestResponse' = Failed("Unauthorized")
                /\ UNCHANGED <<documents, nextDocId>>
           ELSE IF extractedText = <<>> \/ Len(extractedText) < MinTextLen
           THEN /\ ingestResponse' = Failed("Could not extract meaningful text from document.")
                /\ UNCHANGED <<documents, nextDocId>>
           ELSE IF ~storageUp
           THEN /\ ingestResponse' = Failed("Database error")
                /\ UNCHANGED <<documents, nextDocId>>
           ELSE /\ documents' = [d \in DOMAIN documents \cup {id} |->
                                    IF d = id
                                    THEN [id |-> id, user_id |-> GetUser(token),
                                          content |-> extractedText, chunks |-> chunks]
                                    ELSE documents[d]]
                /\ nextDocId' = id
                /\ ingestResponse' = Ok(Num(id))
    /\ UNCHANGED <<queries, nreq, pc, req, user, document, relevantChunks, context,
                   ai, aiCalls, aiResponse, result, insertError, response, errlog>>
    /\ UNCHANGED <<chunkSize, loopVars>>

----------------------------------------------------------------------------
(* Dashboard: handleDelete *)

\* supabase.from("documents").delete().eq("id", id) with the user's own
\* session: the row-level policy lets a user delete only their own rows
\* (a delete that is refused or fails changes nothing).
HandleDelete(who, id) ==
    /\ id \in DOMAIN documents
    /\ documents[id].user_id = who
    /\ documents' = [d \in DOMAIN documents \ {id} |-> documents[d]]
    /\ queries' = CascadeDelete(queries, id)
    /\ UNCHANGED <<nextDocId, ingestResponse, nreq, pc, req, user, document,
                   relevantChunks, context, ai, aiCalls, aiResponse, result, insertError,
                   response, errlog>>
    /\ UNCHANGED <<chunkSize, loopVars>>

----------------------------------------------------------------------------
(* analyze-document *)

\* "..."
Ellipsis == <<46, 46, 46>>

\* the preview without the cut
Preview_Whole(text) == text \o Ellipsis

\* c.text.substring(0, 200) + "..."
Preview(text) == Substring(text, 0, PreviewLen) \o Ellipsis

\* "Analysis based on document context"
GenericReasoning ==
    <<65, 110, 97, 108, 121, 115, 105, 115, 32, 98, 97, 115, 101, 100, 32, 111,
      110, 32, 100, 111, 99, 117, 109, 101, 110, 116, 32, 99, 111, 110, 116,
      101, 120, 116>>

\* the catch of JSON.parse: the structured response made up locally
Fallback(content, ranked) ==
    Obj(Str(content.raw),
        Arr([k \in 1..Len(ranked) |-> Preview(ranked[k].text)]),
        Num(FallbackConfidence),
        Str(GenericReasoning))

\* try { result = JSON.parse(aiResponse) } catch (e) { result = {...} }
ParseResult(content, ranked) ==
    IF content.parses THEN content.value ELSE Fallback(content, ranked)

\* the insert's row without the evidence
QueryRow_NoEvidence(r, who, res, attempt) ==
    [document_id      |-> r.documentId,
     user_id          |-> who,
     question         |-> r.question,
     answer           |-> Get(res, "answer"),
     evidence         |-> Undefined,
     confidence_score |-> Get(res, "confidence_score"),
     reasoning        |-> Get(res, "reasoning"),
     attempt          |-> attempt]

\* the row of supabase.from("queries").insert({...}); attempt is not a
\* column: it records which request made the row
QueryRow(r, who, res, attempt) ==
    [document_id      |-> r.documentId,
     user_id          |-> who,
     question         |-> r.question,
     answer           |-> Get(res, "answer"),
     evidence         |-> Get(res, "evidence"),
     confidence_score |-> Get(res, "confidence_score"),
     reasoning        |-> Get(res, "reasoning"),
     attempt          |-> attempt]

\* supabase.from("queries").insert(row) returns { error }, never throws:
\* the error, "" when the row went in
InsertError(row, docs, storageUp) ==
    IF ~storageUp THEN "storage unavailable"
    ELSE IF ~QueryRowAccepted(row, docs) THEN "constraint violated"
    ELSE ""

\* the insert's error thrown, as process-document does with its own
InsertResponse_ThrowsOnError(res, error) ==
    IF error # "" THEN Failed(error) ELSE Ok(res)

\* return new Response(JSON.stringify(result), ...) after the insert,
\* whatever error it returned
InsertResponse(res, error) == Ok(res)

\* the handler without its response.ok check
FetchThrows_NoStatusCheck(outcome) ==
    CASE outcome.kind = "network_error" -> "fetch failed"
      [] outcome.kind = "bad_envelope" -> "TypeError"
      [] OTHER -> ""

\* what fetch and the reading of the response throw before the content is
\* parsed: "" when nothing is thrown
FetchThrows(outcome) ==
    CASE outcome.kind = "network_error" -> "fetch failed"
      [] outcome.kind = "bad_status" -> "AI analysis failed"
      [] outcome.kind = "bad_envelope" -> "TypeError"
      [] OTHER -> ""

\* console.error("AI gateway error:", ...) of the response.ok check
FetchLogs(outcome) ==
    IF outcome.kind = "bad_status" THEN <<"AI gateway error">> ELSE <<>>

\* the outer catch: log, respond 500 with the error's message
Catch(message, logged) ==
    /\ response' = Failed(message)
    /\ errlog' = errlog \o logged \o <<"Error analyzing document">>
    /\ pc' = "done"

\* A request arrives: getUser(token), then req.json().
AnalyzeReceive(token, documentId, question) ==
    /\ pc \in {"idle", "done"}
    /\ nreq < MaxRequests
    /\ nreq' = nreq + 1
    /\ req' = [token |-> token, documentId |-> documentId, question |-> question]
    /\ user' = GetUser(token)
    /\ document' = NoDocument
    /\ relevantChunks' = <<>>
    /\ context' = <<>>
    /\ result' = Undefined
    /\ ai' = "idle"
    /\ aiCalls' = 0
    /\ aiResponse' = NoContent
    /\ insertError' = ""
    /\ IF GetUser(token) = ""
       THEN /\ response' = Failed("Unauthorized")
            /\ errlog' = <<"Error analyzing document">>
            /\ pc' = "done"
       ELSE /\ response' = NoResponse
            /\ errlog' = <<>>
            /\ pc' = "select"
    /\ UNCHANGED <<documents, queries, nextDocId, ingestResponse>>
    /\ UNCHANGED <<chunkSize, loopVars>>

\* the select step without its check of docError and document: a missing
\* document is ranked as one with no chunks
AnalyzeSelect_NoCheck(storageUp) ==
    /\ pc = "select"
    /\ LET found == IF storageUp /\ req.documentId \in DOMAIN documents
                    THEN documents[req.documentId] ELSE NoDocument
       IN  /\ document' = found
           /\ relevantChunks' = RelevantChunks(found.chunks, req.question)
           /\ context' = Context(relevantChunks')
    /\ ai' = "pending"
    /\ aiCalls' = aiCalls + 1
    /\ pc' = "fetch"
    /\ UNCHANGED <<documents, queries, nextDocId, ingestResponse, nreq, req, user,
                   aiResponse, result, insertError, response, errlog>>
    /\ UNCHANGED <<chunkSize, loopVars>>

\* the select step refusing a question that no chunk matches
AnalyzeSelect_RejectsNoMatch(storageUp) ==
    /\ pc = "select"
    /\ IF ~storageUp \/ req.documentId \notin DOMAIN documents
       THEN /\ Catch("Document not found", <<>>)
            /\ UNCHANGED <<document, relevantChunks, context, ai, aiCalls>>
       ELSE /\ document' = documents[req.documentId]
            /\ relevantChunks' = RelevantChunks(documents[req.documentId].chunks, req.question)
            /\ context' = Context(relevantChunks')
            /\ IF relevantChunks' = <<>>
               THEN /\ Catch("No relevant passages", <<>>)
                    /\ UNCHANGED <<ai, aiCalls>>
               ELSE /\ ai' = "pending"
                    /\ aiCalls' = aiCalls + 1
                    /\ pc' = "fetch"
                    /\ UNCHANGED <<response, errlog>>
    /\ UNCHANGED <<documents, queries, nextDocId, ingestResponse, nreq, req, user,
                   aiResponse, result, insertError>>
    /\ UNCHANGED <<chunkSize, loopVars>>

\* The documents select returns: not found, or the document, whose chunks
\* are ranked and joined, and the AI gateway is called.
AnalyzeSelect(storageUp) ==
    /\ pc = "select"
    /\ IF ~storageUp \/ req.documentId \notin DOMAIN documents
       THEN /\ Catch("Document not found", <<>>)
            /\ UNCHANGED <<document, relevantChunks, context, ai, aiCalls>>
       ELSE /\ document' = documents[req.documentId]
            /\ relevantChunks' = RelevantChunks(documents[req.documentId].chunks, req.question)
            /\ context' = Context(relevantChunks')
            /\ ai' = "pending"
            /\ aiCalls' = aiCalls + 1
            /\ pc' = "fetch"
            /\ UNCHANGED <<response, errlog>>
    /\ UNCHANGED <<documents, queries, nextDocId, ingestResponse, nreq, req, user,
                   aiResponse, result, insertError>>
    /\ UNCHANGED <<chunkSize, loopVars>>

\* The AI gateway never answers this call.
AIGoesSilent ==
    /\ pc = "fetch"
    /\ ai = "pending"
    /\ ai' = "silent"
    /\ UNCHANGED <<documents, queries, nextDocId, ingestResponse, nreq, pc, req, user,
                   document, relevantChunks, context, aiCalls, aiResponse, result,
                   insertError, response, errlog>>
    /\ UNCHANGED <<chunkSize, loopVars>>

\* fetch settles: a failure is thrown, a message content is parsed (or
\* replaced by the fallback) and the queries insert is sent.
AnalyzeFetch(outcome) ==
    /\ pc = "fetch"
    /\ ai = "pending"
    /\ ai' = outcome.kind
    /\ IF FetchThrows(outcome) # ""
       THEN /\ Catch(FetchThrows(outcome), FetchLogs(outcome))
            /\ UNCHANGED <<aiResponse, result>>
       ELSE /\ aiResponse' = outcome.content
            /\ result' = ParseResult(outcome.content, relevantChunks)
            /\ IF result'.t \in {"null", "undefined"}
               THEN \* result.answer of null throws
                    Catch("TypeError", <<>>)
               ELSE /\ pc' = "insert"
                    /\ UNCHANGED <<response, errlog>>
    /\ UNCHANGED <<documents, queries, nextDocId, ingestResponse, nreq, req, user,
                   document, relevantChunks, context, aiCalls, insertError>>
    /\ UNCHANGED <<chunkSize, loopVars>>

\* The queries insert returns (its error, if any, is not looked at), and
\* the result is the response.
AnalyzeInsert(storageUp) ==
    /\ pc = "insert"
    /\ LET row == QueryRow(req, user, result, nreq)
           error == InsertError(row, documents, storageUp)
       IN  /\ insertError' = error
           /\ queries' = IF error = "" THEN Append(queries, row) ELSE queries
           /\ response' = InsertResponse(result, error)
    /\ pc' = "done"
    /\ UNCHANGED <<documents, nextDocId, ingestResponse, nreq, req, user, document,
                   relevantChunks, context, ai, aiCalls, aiResponse, result, errlog>>
    /\ UNCHANGED <<chunkSize, loopVars>>

----------------------------------------------------------------------------
(* The system *)

\* chunk sizes the system is configured with
SystemChunkSizes == {MaxChunkSize, ScenarioChunkSize}

Init ==
    /\ chunkSize \in SystemChunkSizes
    /\ documents = [d \in {} |-> NoDocument]
    /\ queries = <<>>
    /\ nextDocId = 0
    /\ ingestResponse = NoResponse
    /\ nreq = 0
    /\ pc = "idle"
    /\ req = NoRequest
    /\ user = ""
    /\ document = NoDocument
    /\ relevantChunks = <<>>
    /\ context = <<>>
    /\ ai = "idle"
    /\ aiCalls = 0
    /\ aiResponse = NoContent
    /\ result = Undefined
    /\ insertError = ""
    /\ response = NoResponse
    /\ errlog = <<>>
    /\ cText = <<>>
    /\ cI = 0
    /\ cChunks = <<>>

Next ==
    \/ \E token \in Tokens, fileContent \in Files, storageUp \in BOOLEAN :
          ProcessDocument(token, fileContent, storageUp)
    \/ \E who \in Users, id \in 1..MaxDocs : HandleDelete(who, id)
    \/ \E token \in Tokens, documentId \in 1..MaxDocs, question \in Questions :
          AnalyzeReceive(token, documentId, question)
    \/ \E storageUp \in BOOLEAN : AnalyzeSelect(storageUp)
    \/ AIGoesSilent
    \/ \E outcome \in AIOutcomes : AnalyzeFetch(outcome)
    \/ \E storageUp \in BOOLEAN : AnalyzeInsert(storageUp)

Spec == Init /\ [][Next]_vars

\* Every step of a handler that can be taken is taken in the end; the AI
\* gateway is not obliged to answer.
FairSpec ==
    /\ Spec
    /\ WF_vars(\E storageUp \in BOOLEAN : AnalyzeSelect(storageUp))
    /\ WF_vars(\E outcome \in AIOutcomes : AnalyzeFetch(outcome))
    /\ WF_vars(\E storageUp \in BOOLEAN : AnalyzeInsert(storageUp))

----------------------------------------------------------------------------
(* The chunk loop on its own, over every short text *)

Alphabet == {97, 98}
Texts == UNION {[1..n -> Alphabet] : n \in 0..MaxTextLen}

InitChunker ==
    /\ chunkSize \in 1..MaxChunkSize
    /\ cText \in Texts
    /\ cI = 0
    /\ cChunks = <<>>
    /\ documents = [d \in {} |-> NoDocument]
    /\ queries = <<>>
    /\ nextDocId = 0
    /\ ingestResponse = NoResponse
    /\ nreq = 0
    /\ pc = "idle"
    /\ req = NoRequest
    /\ user = ""
    /\ document = NoDocument
    /\ relevantChunks = <<>>
    /\ context = <<>>
    /\ ai = "idle"
    /\ aiCalls = 0
    /\ aiResponse = NoContent
    /\ result = Undefined
    /\ insertError = ""
    /\ response = NoResponse
    /\ errlog = <<>>

\* one iteration of the for loop
ChunkStep ==
    /\ cI < Len(cText)
    /\ cChunks' = ChunkPush(cChunks, cText, cI, chunkSize)
    /\ cI' = cI + chunkSize
    /\ UNCHANGED <<chunkSize, cText, sysVars>>

SpecChunker == InitChunker /\ [][ChunkStep]_vars

----------------------------------------------------------------------------
(* Properties *)

RECURSIVE ConcatTexts(_)
\* the texts of a chunk sequence, concatenated in stored order
ConcatTexts(chunks) ==
    IF chunks = <<>> THEN <<>> ELSE chunks[1].text \o ConcatTexts(Tail(chunks))

\* ceil(n / d)
CeilDiv(n, d) == (n + d - 1) \div d

\* C1: the chunks stored on a document, concatenated in stored order, are
\* its stored text, and there are ceil(len / chunkSize) of them.
C1_ChunkCoverage ==
    \A id \in DOMAIN documents :
        /\ ConcatTexts(documents[id].chunks) = documents[id].content
        /\ Len(documents[id].chunks) = CeilDiv(Len(documents[id].content), chunkSize)

\* a stored document of several chunks whose last chunk is a remainder
C1_Witness ==
    \E id \in DOMAIN documents :
        /\ Len(documents[id].chunks) >= 2
        /\ Len(documents[id].content) % chunkSize # 0

\* C2: in every chunk sequence the chunk loop builds, each chunk but the
\* last has exactly chunkSize characters, the last has 1..chunkSize, and a
\* chunk's index is its zero-based position.
C2_ChunkSizes ==
    \A k \in 1..Len(cChunks) :
        /\ cChunks[k].index = k - 1
        /\ Len(cChunks[k].text) \in 1..chunkSize
        /\ k < Len(cChunks) => Len(cChunks[k].text) = chunkSize

\* the loop has ended with several chunks, the last one a remainder
C2_Witness ==
    /\ cI >= Len(cText)
    /\ Len(cChunks) >= 2
    /\ Len(cChunks[Len(cChunks)].text) < chunkSize

\* text, lower-cased, holds the lower-cased question at some position
Matches(text, question) ==
    \E p \in 1..(Len(text) + 1) :
        /\ p + Len(question) - 1 <= Len(text)
        /\ \A k \in 1..Len(question) :
              LowerCode(text[p + k - 1]) = LowerCode(question[k])

\* the indices of the document's chunks that match the question
MatchingIndices ==
    {document.chunks[j].index : j \in {j \in 1..Len(document.chunks) :
                                         Matches(document.chunks[j].text, req.question)}}

RankedIndices == {relevantChunks[k].index : k \in 1..Len(relevantChunks)}

\* C3: everything ranked is a chunk of the document, and no chunk of the
\* document that does not match the question is ranked.
C3_RankingExclusion ==
    /\ \A k \in 1..Len(relevantChunks) :
          \E j \in 1..Len(document.chunks) :
              /\ document.chunks[j].index = relevantChunks[k].index
              /\ document.chunks[j].text = relevantChunks[k].text
    /\ \A j \in 1..Len(document.chunks) :
          ~Matches(document.chunks[j].text, req.question)
              => document.chunks[j].index \notin RankedIndices

\* a ranking that kept some chunks of a document and left others out
C3_Witness ==
    /\ pc = "fetch"
    /\ relevantChunks # <<>>
    /\ \E j \in 1..Len(document.chunks) :
          ~Matches(document.chunks[j].text, req.question)

\* C4: the ranked chunks are at most 3, they are the matching chunks of
\* smallest index, and they are listed by ascending index.
C4_TopThreeInOrder ==
    pc \in {"fetch", "insert", "done"} =>
        /\ Len(relevantChunks) <= 3
        /\ Len(relevantChunks) = Min(3, Cardinality(MatchingIndices))
        /\ RankedIndices \subseteq MatchingIndices
        /\ \A m \in MatchingIndices \ RankedIndices : \A r \in RankedIndices : r < m
        /\ \A k \in 1..(Len(relevantChunks) - 1) :
              relevantChunks[k].index < relevantChunks[k + 1].index

\* more than three chunks match, and a chunk that does not match lies
\* before a ranked one
C4_Witness ==
    /\ pc = "fetch"
    /\ Cardinality(MatchingIndices) > 3
    /\ \E j \in 1..Len(document.chunks) :
          /\ ~Matches(document.chunks[j].text, req.question)
          /\ \E r \in RankedIndices : document.chunks[j].index < r

\* C5: the scenario text chunked at 40 and asked the scenario question
\* ranks exactly chunk 0.
C5_ScenarioRanksChunkZero ==
    ( /\ pc \in {"fetch", "insert", "done"}
      /\ chunkSize = ScenarioChunkSize
      /\ document.content = ScenarioText
      /\ req.question = ScenarioQuestion )
        => /\ Len(relevantChunks) = 1
           /\ relevantChunks[1].index = 0

\* analyze has answered 200 to a message content JSON.parse rejected
FallbackAnswered ==
    /\ pc = "done"
    /\ response.status = 200
    /\ ai = "content"
    /\ ~aiResponse.parses

\* the fallback result, but for its evidence entries
FallbackBut(entries) ==
    /\ response.body.t = "object"
    /\ response.body.answer = Str(aiResponse.raw)
    /\ response.body.confidence_score = Num(75)
    /\ response.body.reasoning = Str(GenericReasoning)
    /\ response.body.evidence.t = "array"
    /\ Len(response.body.evidence.a) = Len(relevantChunks)
    /\ Len(relevantChunks) <= 3
    /\ \A k \in 1..Len(relevantChunks) : response.body.evidence.a[k] = entries[k]

\* C6 as claimed: on a content that does not parse, the result is the raw
\* text, 75, a generic note, and one evidence entry per ranked chunk, in rank
\* order: the chunk's text cut to the preview length.
C6_FallbackEvidenceIsCutText ==
    FallbackAnswered =>
        FallbackBut([k \in 1..Len(relevantChunks) |->
                        SubSeq(relevantChunks[k].text, 1,
                               Min(PreviewLen, Len(relevantChunks[k].text)))])

\* C6 amended: each evidence entry is the chunk's text cut to the preview
\* length and followed by "...", whether or not anything was cut off.
C6_FallbackEvidenceIsCutTextAndDots ==
    FallbackAnswered =>
        FallbackBut([k \in 1..Len(relevantChunks) |->
                        SubSeq(relevantChunks[k].text, 1,
                               Min(PreviewLen, Len(relevantChunks[k].text)))
                            \o <<46, 46, 46>>])

\* a fallback answer over three ranked chunks longer than the preview
C6_Witness ==
    /\ FallbackAnswered
    /\ Len(relevantChunks) = 3
    /\ \A k \in 1..3 : Len(relevantChunks[k].text) > PreviewLen

\* a query row that holds a result of the schema
IsStoredResult(row) ==
    /\ row.answer.t = "string"
    /\ row.evidence.t = "array"
    /\ row.confidence_score.t = "number"
    /\ row.confidence_score.n \in 0..100
    /\ row.reasoning.t = "string"

\* C7: every result a successful analyze returns, and every query row it
\* stores, has a string answer, a list of evidence strings, an integer
\* confidence_score in 0..100 and a string reasoning.
C7_ResultSchema ==
    /\ (pc = "done" /\ response.status = 200) => IsQueryResult(response.body)
    /\ \A k \in 1..Len(queries) : IsStoredResult(queries[k])

\* C8: when the AI gateway cannot be reached or answers with a failure
\* status, analyze has answered with an error and no result, and this
\* request has put no row into queries.
C8_GatewayFailureRecordsNothing ==
    ai \in {"network_error", "bad_status"} =>
        /\ pc = "done"
        /\ response.status = 500
        /\ response.error # ""
        /\ response.body.t = "undefined"
        /\ insertError = ""
        /\ \A k \in 1..Len(queries) : queries[k].attempt # nreq

\* the gateway answered a call about an existing document with a failure status
C8_Witness ==
    /\ ai = "bad_status"
    /\ pc = "done"
    /\ document.id # 0
    /\ response.error = "AI analysis failed"

\* C9: an analyze that has called the AI gateway completes in the end.
C9_GatewayCallCompletes == (pc = "fetch") ~> (pc = "done")

\* C10: when the queries insert fails, analyze still answers 200 with the
\* result it had accepted.
C10_InsertFailureKeepsAnswer ==
    (pc = "done" /\ insertError # "") =>
        /\ response.status = 200
        /\ response.error = ""
        /\ result.t \notin {"undefined", "null"}
        /\ response.body = result

\* storage was down for the insert of a well-formed result, which was answered
C10_Witness ==
    /\ pc = "done"
    /\ insertError = "storage unavailable"
    /\ response.status = 200
    /\ IsQueryResult(response.body)
    /\ queries = <<>>

\* C11: an analyze whose queries insert failed has reported it: it logged
\* the failure, or its response carries it, so that the run differs from
\* one whose insert succeeded.
C11_InsertFailureReported ==
    (pc = "done" /\ insertError # "") =>
        \/ errlog # <<>>
        \/ response.error # ""
        \/ response.status # 200
        \/ response.body # result

\* C12: an analyze whose documentId matches no stored document ends, at
\* its select, with the error "Document not found"; it has not called the
\* AI gateway and it puts no row into queries.
C12_MissingDocumentIsNotFound ==
    /\ [][(pc = "select" /\ req.documentId \notin DOMAIN documents /\ pc' # "select")
            => /\ pc' = "done"
               /\ response'.status = 500
               /\ response'.error = "Document not found"
               /\ aiCalls' = 0
               /\ queries' = queries]_vars
    /\ [](response.error = "Document not found"
            => /\ pc = "done"
               /\ aiCalls = 0
               /\ ai = "idle"
               /\ \A k \in 1..Len(queries) : queries[k].attempt # nreq)

\* an authenticated request for a document that never existed was refused
C12_Witness ==
    /\ pc = "done"
    /\ user # ""
    /\ nextDocId = 0
    /\ response.error = "Document not found"

\* C13: an analyze reads, sends to the AI gateway and records only a
\* document of the requesting user: while it works on a document that
\* document is the user's own, and every query row's owner owns the
\* document the row refers to.
C13_OwnerIsolation ==
    /\ pc \in {"fetch", "insert"} => document.user_id = user
    /\ (pc = "done" /\ response.status = 200) => document.user_id = user
    /\ \A k \in 1..Len(queries) :
          queries[k].document_id \in DOMAIN documents
              => queries[k].user_id = documents[queries[k].document_id].user_id

\* what is left of each uploaded file once its control characters are
\* removed and it is trimmed: the scenario text unchanged, "AbxxabaBab",
\* "too short", and nothing
ExpectedText(fileContent) ==
    CASE fileContent = ScenarioText -> ScenarioText
      [] fileContent = NoisyFile -> <<65, 98, 120, 120, 97, 98, 97, 66, 97, 98>>
      [] fileContent = TooShortFile -> <<116, 111, 111, 32, 115, 104, 111, 114, 116>>
      [] fileContent = BlankFile -> <<>>

\* C14: an authenticated ingest of a file whose cleaned text has fewer than
\* 10 characters answers with the empty-content error and stores nothing;
\* of any other file, with storage available, it stores exactly one new
\* document, owned by the requesting user, whose content is the cleaned text.
C14_IngestRefusesShortText ==
    [][\A token \in Users, fileContent \in Files, storageUp \in BOOLEAN :
          ProcessDocument(token, fileContent, storageUp) =>
              IF Len(ExpectedText(fileContent)) < 10
              THEN /\ documents' = documents
                   /\ ingestResponse'.status = 500
                   /\ ingestResponse'.error = "Could not extract meaningful text from document."
              ELSE IF storageUp
              THEN /\ nextDocId' \notin DOMAIN documents
                   /\ DOMAIN documents' = DOMAIN documents \cup {nextDocId'}
                   /\ \A d \in DOMAIN documents : documents'[d] = documents[d]
                   /\ documents'[nextDocId'].user_id = token
                   /\ documents'[nextDocId'].content = ExpectedText(fileContent)
                   /\ ingestResponse'.status = 200
              ELSE documents' = documents]_vars

\* an ingest was refused for want of text, and nothing is stored
C14_Witness ==
    /\ ingestResponse.status = 500
    /\ ingestResponse.error = "Could not extract meaningful text from document."
    /\ DOMAIN documents = {}

\* C15: when no chunk of the document matches the question, the context is
\* the empty string, the AI gateway is still called, exactly once, and a
\* content it returns is answered 200: as parsed, or as the fallback with
\* an empty evidence list.
C15_EmptyContextTolerated ==
    (pc \in {"fetch", "insert", "done"} /\ document.id # 0 /\ MatchingIndices = {}) =>
        /\ relevantChunks = <<>>
        /\ context = <<>>
        /\ aiCalls = 1
        /\ (pc = "done" /\ ai = "content" /\ result.t # "null") =>
              /\ response.status = 200
              /\ IF aiResponse.parses
                 THEN response.body = aiResponse.value
                 ELSE response.body =
                          Obj(Str(aiResponse.raw), Arr(<<>>), Num(75), Str(GenericReasoning))

\* a prose answer about a document none of whose chunks matched
C15_Witness ==
    /\ pc = "done"
    /\ document.id # 0
    /\ MatchingIndices = {}
    /\ ai = "content"
    /\ ~aiResponse.parses
    /\ response.status = 200
    /\ response.body.evidence = Arr(<<>>)

\* the query row of the current request: its user, document and question,
\* and the four fields of its result (NULL where the result has none)
ExpectedRow ==
    [document_id      |-> req.documentId,
     user_id          |-> user,
     question         |-> req.question,
     answer           |-> IF result.t = "object" THEN result.answer ELSE Undefined,
     evidence         |-> IF result.t = "object" THEN result.evidence ELSE Undefined,
     confidence_score |-> IF result.t = "object" THEN result.confidence_score ELSE Undefined,
     reasoning        |-> IF result.t = "object" THEN result.reasoning ELSE Undefined,
     attempt          |-> nreq]

\* the analyze request answers with a result in this step
AnswersResult == pc = "insert" /\ pc' = "done"

\* the analyze request answers with an error in this step
AnswersError == pc # "done" /\ pc' = "done" /\ response'.status = 500

\* the only step that adds a query row is the one that answers a result
OnlyAnswersRecord == (~AnswersResult) => Len(queries') <= Len(queries)

\* C16 as claimed: with storage available, an analyze that returns a
\* result has inserted exactly one query row, that of its request and
\* result, between synthesis and the response; one that ends in an error
\* inserts none.
C16_EveryResultIsRecorded ==
    [][/\ (AnswersResult /\ insertError' # "storage unavailable")
            => /\ response' = Ok(result)
               /\ queries' = Append(queries, ExpectedRow)
       /\ AnswersError => queries' = queries
       /\ OnlyAnswersRecord]_vars

\* the queries table takes the row: its document exists and its
\* confidence_score fits an INTEGER column
TableTakesRow ==
    /\ req.documentId \in DOMAIN documents
    /\ ExpectedRow.confidence_score.t \in {"number", "undefined", "null"}

\* C16 amended: the row is stored when, besides storage being available,
\* the table takes it (the document still exists at the insert, the score
\* fits its column); otherwise the result is returned all the same and no
\* row is stored.
C16_AcceptedResultIsRecorded ==
    [][/\ AnswersResult
            => /\ response' = Ok(result)
               /\ IF insertError' # "storage unavailable" /\ TableTakesRow
                  THEN queries' = Append(queries, ExpectedRow)
                  ELSE queries' = queries
       /\ AnswersError => queries' = queries
       /\ OnlyAnswersRecord]_vars

\* a well-formed result was answered and its row is in the table
C16_Witness ==
    /\ pc = "done"
    /\ response.status = 200
    /\ IsQueryResult(response.body)
    /\ \E k \in 1..Len(queries) :
          /\ queries[k].attempt = nreq
          /\ queries[k].user_id = user
          /\ queries[k].answer = response.body.answer

\* the documents deleted in this step
DeletedNow == DOMAIN documents \ DOMAIN documents'

\* the query rows whose document is not deleted in this step
Survivors == SelectSeq(queries, LAMBDA r : r.document_id \notin DeletedNow)

\* C17: under every interleaving of ingest, analyze and deletion, each
\* stored query row references a document that exists; a step that deletes
\* a document removes exactly the rows that reference it, and every other
\* step leaves the rows as they are or appends one row whose document
\* exists after the step.
C17_ExchangesReferenceLiveDocuments ==
    /\ [](\A k \in 1..Len(queries) : queries[k].document_id \in DOMAIN documents)
    /\ [][IF DeletedNow # {}
          THEN queries' = Survivors
          ELSE \/ queries' = queries
               \/ /\ Len(queries') = Len(queries) + 1
                  /\ SubSeq(queries', 1, Len(queries)) = queries
                  /\ queries'[Len(queries')].document_id \in DOMAIN documents']_vars

\* the document was deleted while its analyze was in flight: the answer
\* went out and the table refused the row
C17_Witness ==
    /\ pc = "done"
    /\ response.status = 200
    /\ document.id # 0
    /\ req.documentId \notin DOMAIN documents
    /\ insertError = "constraint violated"
    /\ queries = <<>>

\* a deletion took the rows of its document with it
C17_CascadeSeen ==
    /\ pc = "done"
    /\ response.status = 200
    /\ insertError = ""
    /\ req.documentId \notin DOMAIN documents
    /\ queries = <<>>

====
